---- MODULE Spec2Model ----
(***************************************************************************)
(* A model of app-pass: the check / fix / sign passes over a macOS .app     *)
(* bundle (src/src/app_pass).                                               *)
(*                                                                         *)
(* A pathlib.Path is modelled by its `parts` tuple: <<"/", "usr", "lib">>   *)
(* is /usr/lib, <<"@rpath", "x">> is @rpath/x, <<>> is Path("").  Path     *)
(* operations are the purely lexical ones of PurePosixPath: ".." is kept,   *)
(* never normalised.                                                       *)
(***************************************************************************)
EXTENDS Naturals, Sequences, FiniteSets

VARIABLES
    disk,            \* the Mach-O binaries on disk: what otool would report
    fs,              \* Info.plist's CFBundleExecutable, and what is at that path
    app,             \* the OSXAPP value built by from_path (a snapshot of disk)
    action,          \* CLI subcommand: "check", "fix", "sign" or "fixsign"
    rc_path_delete,  \* CLI flag --rc-path-delete
    dry_run,         \* CLI flag --dry-run
    pc,              \* position of the running operation
    issues,          \* the issue list of the current pass
    todo,            \* index of the next element of the running loop
    inner,           \* Jar.sign: index of the next binary of the jar
    npass,           \* number of the current pass over the bundle
    executed,        \* external commands started so far, in order
    error,           \* the exception that ended the operation, exc = "" if none
    commands,        \* run_commands: the command list
    exits,           \* run_commands: the exit code each command returns
    out              \* what a serialisation of the commands returned or wrote

input == <<disk, fs, app, action, rc_path_delete, dry_run, commands, exits>>
vars == <<disk, fs, app, action, rc_path_delete, dry_run, pc, issues, todo, inner,
          npass, executed, error, commands, exits, out>>

(***************************************************************************)
(* pathlib                                                                 *)
(***************************************************************************)
IsAbsolute(p) == Len(p) > 0 /\ p[1] = "/"

\* PurePath.is_relative_to: `other` is a prefix of the parts, anchors alike
IsRelativeTo(p, other) ==
    /\ IsAbsolute(p) = IsAbsolute(other)
    /\ Len(other) <= Len(p)
    /\ SubSeq(p, 1, Len(other)) = other

\* PurePath.relative_to, defined where IsRelativeTo holds (else ValueError)
RelativeTo(p, other) == SubSeq(p, Len(other) + 1, Len(p))

\* PurePath.__truediv__: an absolute right operand replaces the left one
Join(a, b) == IF IsAbsolute(b) THEN b ELSE a \o b

\* PurePath.name: the last part, "" for the root and for the empty path
Name(p) == IF Len(p) = 0 \/ p = <<"/">> THEN "" ELSE p[Len(p)]

\* PurePath.parent
Parent(p) == IF Len(p) = 0 \/ p = <<"/">> THEN p ELSE SubSeq(p, 1, Len(p) - 1)

\* lexical normalisation of ".." parts, as Path.resolve and the loader do it
RECURSIVE Norm(_, _)
Norm(parts, acc) ==
    IF parts = <<>> THEN acc
    ELSE IF Head(parts) = ".." /\ Len(acc) > 0 /\ acc[Len(acc)] \notin {"/", ".."}
    THEN Norm(Tail(parts), SubSeq(acc, 1, Len(acc) - 1))
    ELSE IF Head(parts) = ".." /\ acc = <<"/">> THEN Norm(Tail(parts), acc)
    ELSE Norm(Tail(parts), Append(acc, Head(parts)))

\* the working directory of the process
Cwd == <<"/">>

\* Path.resolve on a bundle without symbolic links: the path made absolute
\* from the working directory, its ".." parts folded
resolve(p) == Norm(Join(Cwd, p), <<>>)

\* the longest common prefix of two directories
CommonDir(a, b) ==
    LET ks == {k \in 0..Len(a) : k <= Len(b) /\ SubSeq(a, 1, k) = SubSeq(b, 1, k)}
    IN  SubSeq(a, 1, CHOOSE k \in ks : \A m \in ks : m <= k)

\* root.glob("**/*") restricted to the files of s: a directory's entries are
\* listed together, in any order, a directory before the directories below
\* it, and one subtree is finished before the next is entered
Listed(s) ==
    /\ \A i, j \in 1..Len(s) :
         (/\ Parent(s[i].path) /= Parent(s[j].path)
          /\ IsRelativeTo(Parent(s[j].path), Parent(s[i].path))) => i < j
    /\ \A i, j, k \in 1..Len(s) :
         (i < j /\ j < k) =>
           IsRelativeTo(Parent(s[j].path), CommonDir(Parent(s[i].path), Parent(s[k].path)))

\* the orders in which a directory walk can find the files of the set S
Listings(S) ==
    {s \in [1..Cardinality(S) -> S] :
        (\A i, j \in 1..Cardinality(S) : i /= j => s[i] /= s[j]) /\ Listed(s)}

(***************************************************************************)
(* Results of a call: exc = "" and the value, or the exception raised.      *)
(***************************************************************************)
Ok(v) == [exc |-> "", val |-> v]
Raise(e) == [exc |-> e, val |-> <<>>]

\* Optional[Path]: <<>> is None, <<p>> is the path p
None == <<>>
Some(p) == <<p>>

(***************************************************************************)
(* _app.py: allowed prefixes                                               *)
(***************************************************************************)
_ALLOWED_SPECIAL == <<(<<"@rpath">>), (<<"@executable_path">>), (<<"@loader_path">>)>>
\* a faulty variant: /Library is missing from the list
_ALLOWED_SYSTEM_short == <<(<<"/", "System">>), (<<"/", "usr">>)>>

_ALLOWED_SYSTEM == <<(<<"/", "System">>), (<<"/", "usr">>), (<<"/", "Library">>)>>

\* any(path.is_relative_to(x) for x in _ALLOWED_SYSTEM + _ALLOWED_SPECIAL)
Allowed(path) ==
    LET xs == _ALLOWED_SYSTEM \o _ALLOWED_SPECIAL
    IN  \E i \in 1..Len(xs) : IsRelativeTo(path, xs[i])

(***************************************************************************)
(* Issues and their repairs (functools.partial of a _macho repair)          *)
(***************************************************************************)
NoFix == [op |-> "None", bin |-> <<>>, old |-> <<>>, new |-> <<>>]
Partial(op, bin, old, new) == [op |-> op, bin |-> bin, old |-> old, new |-> new]

\* Issue(fixable, details, fix); details keeps the values the message embeds
Issue(kind, fixable, msg, bin, subject, fix) ==
    [kind |-> kind, fixable |-> fixable,
     details |-> [msg |-> msg, bin |-> bin, subject |-> subject],
     fix |-> fix]

(***************************************************************************)
(* OSXAPP                                                                  *)
(***************************************************************************)
\* OSXAPP.libraries: {x.path.name: x}: a later binary of the same name wins
HasLibrary(a, libname) ==
    \E i \in 1..Len(a.macho_binaries) : Name(a.macho_binaries[i].path) = libname

Library(a, libname) ==
    LET is == {i \in 1..Len(a.macho_binaries) : Name(a.macho_binaries[i].path) = libname}
        last == CHOOSE i \in is : \A j \in is : j <= i
    IN  a.macho_binaries[last]

\* "/".join([".."] * i) appended part by part
RECURSIVE Ups(_)
Ups(i) == IF i = 0 THEN <<>> ELSE <<"..">> \o Ups(i - 1)

\* a faulty variant: the candidates are tried from the root downwards
lib_loader_relative_outer(a, libname) ==
    IF ~HasLibrary(a, libname) THEN Raise("AssertionError")
    ELSE IF ~IsRelativeTo(a.loader_path, a.root) THEN Raise("ValueError")
    ELSE
      LET lib_path == Library(a, libname).path
          loader_root_relative == RelativeTo(a.loader_path, a.root)
          n == Len(loader_root_relative)
          cand(i) == Join(a.root, SubSeq(loader_root_relative, 1, n - i))
          hits == {i \in 0..n : IsRelativeTo(lib_path, cand(i))}
      IN  IF hits = {} THEN Raise("ValueError")
          ELSE LET i == CHOOSE k \in hits : \A j \in hits : k >= j
               IN  Ok(Join(Join(<<"@loader_path">>, Ups(i)),
                           RelativeTo(lib_path, cand(i))))

\* OSXAPP.lib_loader_relative
lib_loader_relative(a, libname) ==
    IF ~HasLibrary(a, libname) THEN Raise("AssertionError")
    ELSE IF ~IsRelativeTo(a.loader_path, a.root) THEN Raise("ValueError")
    ELSE
      LET lib_path == Library(a, libname).path
          loader_root_relative == RelativeTo(a.loader_path, a.root)
          n == Len(loader_root_relative)
          \* candiates[i] (0-based) is loader_root_relative cut by i parts
          cand(i) == Join(a.root, SubSeq(loader_root_relative, 1, n - i))
          hits == {i \in 0..n : IsRelativeTo(lib_path, cand(i))}
      IN  IF hits = {} THEN Raise("ValueError")
          ELSE LET i == CHOOSE k \in hits : \A j \in hits : k <= j
               IN  Ok(Join(Join(<<"@loader_path">>, Ups(i)),
                           RelativeTo(lib_path, cand(i))))

\* OSXAPP.bundle_exe_rpaths
bundle_exe_rpaths(a) ==
    LET filtered == {i \in 1..Len(a.macho_binaries) :
                        a.macho_binaries[i].path = a.bundle_exe}
    IN  IF Cardinality(filtered) /= 1 THEN Raise("AssertionError")
        ELSE LET m == a.macho_binaries[CHOOSE i \in filtered : TRUE]
             IN  IF \E k \in 1..Len(m.rpaths) : IsAbsolute(m.rpaths[k])
                 THEN Raise("ValueError")
                 ELSE Ok(m.rpaths)

(***************************************************************************)
(* fix_path_pointer                                                        *)
(***************************************************************************)
\* "sep".join(xs) on Python strings
RECURSIVE JoinStr(_, _)
JoinStr(xs, sep) ==
    IF Len(xs) = 0 THEN ""
    ELSE IF Len(xs) = 1 THEN xs[1]
    ELSE xs[1] \o sep \o JoinStr(Tail(xs), sep)

\* str(path): the parts joined by "/", the anchor written once, "." when empty
str(p) ==
    IF Len(p) = 0 THEN "."
    ELSE IF p[1] = "/" THEN "/" \o JoinStr(Tail(p), "/")
    ELSE JoinStr(p, "/")

\* `t in s` on Python strings: t is a substring of s
Contains(s, t) ==
    \E i \in 1..(Len(s) - Len(t) + 1) : SubSeq(s, i, i + Len(t) - 1) = t

\* s.replace(t, ""): the occurrences of t, found from the left and not
\* overlapping, are cut out of s
RECURSIVE Remove(_, _)
Remove(s, t) ==
    IF Len(s) < Len(t) THEN s
    ELSE IF SubSeq(s, 1, Len(t)) = t THEN Remove(SubSeq(s, Len(t) + 1, Len(s)), t)
    ELSE SubSeq(s, 1, 1) \o Remove(SubSeq(s, 2, Len(s)), t)

\* s.split("/"), cur being the piece read so far
RECURSIVE SplitSlash(_, _)
SplitSlash(s, cur) ==
    IF Len(s) = 0 THEN <<cur>>
    ELSE IF SubSeq(s, 1, 1) = "/" THEN <<cur>> \o SplitSlash(SubSeq(s, 2, Len(s)), "")
    ELSE SplitSlash(SubSeq(s, 2, Len(s)), cur \o SubSeq(s, 1, 1))

\* a piece of a path text that Path(text) keeps: not empty and not "."
KeptPiece(x) == x /= "" /\ x /= "."

\* Path(text): the parts of a text; empty and "." pieces vanish, a leading
\* slash is the anchor
PathOf(s) ==
    IF Len(s) > 0 /\ SubSeq(s, 1, 1) = "/"
    THEN <<"/">> \o SelectSeq(SplitSlash(s, ""), KeptPiece)
    ELSE SelectSeq(SplitSlash(s, ""), KeptPiece)

\* `token + "/" in str(rpath)`: a substring test on the text of the path
HasTokenSlash(rpath, token) == Contains(str(rpath), token \o "/")

\* Path(str(rpath).replace(token + "/", "")): the text "token/" is cut out
\* wherever it stands, also in the middle of a part, and the rest is parsed
StripToken(rpath, token) == PathOf(Remove(str(rpath), token \o "/"))

\* the loop over app_rpaths, from entry i on; the fallback when it ends
RECURSIVE RpathLoop(_, _, _, _)
RpathLoop(a, path, app_rpaths, i) ==
    IF i > Len(app_rpaths) THEN
        IF IsRelativeTo(path, a.loader_path)
        THEN Ok(Some(Join(<<"@loader_path">>, RelativeTo(path, a.loader_path))))
        ELSE Raise("ValueError")
    ELSE
      LET rpath == app_rpaths[i] IN
      IF IsAbsolute(rpath) THEN Raise("AssertionError")
      ELSE IF ~HasTokenSlash(rpath, "@loader_path") /\ ~HasTokenSlash(rpath, "@executable_path")
      THEN Raise("ValueError")
      ELSE
        LET rc_abs == IF HasTokenSlash(rpath, "@loader_path")
                      THEN Join(a.loader_path, StripToken(rpath, "@loader_path"))
                      ELSE Join(a.loader_path, StripToken(rpath, "@executable_path"))
        IN  IF IsRelativeTo(path, rc_abs)
            THEN Ok(Some(Join(rpath, RelativeTo(path, rc_abs))))
            ELSE RpathLoop(a, path, app_rpaths, i + 1)

\* fix_path_pointer: Ok(Some(p)), Ok(None) for the implicit `return None`
fix_path_pointer(a, path) ==
    IF Allowed(path) THEN Ok(Some(path))
    ELSE IF IsAbsolute(path) /\ IsRelativeTo(path, a.root) THEN
        LET r == bundle_exe_rpaths(a)
        IN  IF r.exc /= "" THEN Raise(r.exc)
            ELSE RpathLoop(a, path, r.val, 1)
    ELSE Ok(None)

(***************************************************************************)
(* The three checks of one binary                                          *)
(***************************************************************************)
\* check_id_needs_fix
check_id_needs_fix(a, binary) ==
    IF binary.id_ = None THEN <<>>
    ELSE LET id_ == binary.id_[1] IN
         IF ~Allowed(id_)
         THEN <<Issue("LibraryPathIssue", TRUE, "Library ID with fixed path",
                      binary.path, id_,
                      Partial("fix_lib_id", binary.path, <<>>,
                              Join(<<"@rpath">>, PathOf(Name(id_)))))>>
         ELSE <<>>

\* the first loop of check_libs_need_fix: the dylibs that are not allowed
RECURSIVE Invalid(_)
Invalid(dylibs) ==
    IF dylibs = <<>> THEN <<>>
    ELSE IF ~Allowed(Head(dylibs)) THEN <<Head(dylibs)>> \o Invalid(Tail(dylibs))
    ELSE Invalid(Tail(dylibs))

\* a faulty variant: a dependency found nowhere raises DependencyNotFountInBundle
LibIssue_raise(a, binary, lib) ==
    IF HasLibrary(a, Name(lib)) THEN
        LET found == lib_loader_relative(a, Name(lib))
        IN  IF found.exc /= "" THEN Raise(found.exc)
            ELSE Ok(<<Issue("LibraryPathIssue", TRUE, "Link to library not valid",
                            binary.path, lib,
                            Partial("fix_load_path", binary.path, lib, found.val))>>)
    ELSE Raise("DependencyNotFountInBundle")

\* the issue of one invalid dylib
LibIssue(a, binary, lib) ==
    IF HasLibrary(a, Name(lib)) THEN
        LET found == lib_loader_relative(a, Name(lib))
        IN  IF found.exc /= "" THEN Raise(found.exc)
            ELSE Ok(<<Issue("LibraryPathIssue", TRUE, "Link to library not valid",
                            binary.path, lib,
                            Partial("fix_load_path", binary.path, lib, found.val))>>)
    ELSE Ok(<<Issue("LibraryPathIssue", FALSE, "Issue with",
                    binary.path, lib, NoFix)>>)

\* the second loop of check_libs_need_fix
RECURSIVE LibLoop(_, _, _)
LibLoop(a, binary, invalid) ==
    IF invalid = <<>> THEN Ok(<<>>)
    ELSE LET one == LibIssue(a, binary, Head(invalid)) IN
         IF one.exc /= "" THEN one
         ELSE LET rest == LibLoop(a, binary, Tail(invalid)) IN
              IF rest.exc /= "" THEN rest ELSE Ok(one.val \o rest.val)

\* check_libs_need_fix
check_libs_need_fix(a, binary) == LibLoop(a, binary, Invalid(binary.dylibs))

\* one iteration of the loop of check_rpaths_need_fix
RpathIssueOf(a, binary, pth, delete) ==
    LET fixed == fix_path_pointer(a, pth) IN
    IF fixed.exc /= "" THEN Raise(fixed.exc)
    ELSE IF fixed.val /= None /\ fixed.val[1] /= pth THEN
        Ok(<<Issue("RcpathIssue", TRUE, "Rcpath fix", binary.path, pth,
                   Partial("fix_rpath", binary.path, pth, fixed.val[1]))>>)
    ELSE IF fixed.val = None THEN
        IF delete
        THEN Ok(<<Issue("RcpathIssue", TRUE, "DELETING rpath pointing outside",
                        binary.path, pth,
                        Partial("remove_rpath", binary.path, pth, <<>>))>>)
        ELSE Ok(<<Issue("RcpathIssue", FALSE, "rpath pointing outside",
                        binary.path, pth, NoFix)>>)
    ELSE Ok(<<>>)

RECURSIVE RpathCheckLoop(_, _, _, _)
RpathCheckLoop(a, binary, rpaths, delete) ==
    IF rpaths = <<>> THEN Ok(<<>>)
    ELSE LET one == RpathIssueOf(a, binary, Head(rpaths), delete) IN
         IF one.exc /= "" THEN one
         ELSE LET rest == RpathCheckLoop(a, binary, Tail(rpaths), delete) IN
              IF rest.exc /= "" THEN rest ELSE Ok(one.val \o rest.val)

\* check_rpaths_need_fix
check_rpaths_need_fix(a, binary, delete) ==
    RpathCheckLoop(a, binary, binary.rpaths, delete)

(***************************************************************************)
(* Build metadata.  The Build class is not among the sources; a binary's    *)
(* build is kept as the outcome of its predicates: "none" (no build),       *)
(* "valid", "fixable" (invalid, can_fix) or "unfixable".                    *)
(***************************************************************************)
BuildIsValid(build) == build = "valid"
BuildCanFix(build) == build = "fixable"

\* a faulty variant: the fixable build issue is built without its repair
BuildIssues_nofix(a, binary) ==
    IF binary.build /= "none" /\ ~BuildIsValid(binary.build) THEN
        IF BuildCanFix(binary.build)
        THEN <<Issue("BuildIssue", TRUE, "Missing build number.", binary.path, <<>>,
                     NoFix)>>
        ELSE <<Issue("BuildIssue", FALSE, "Probably sdk for build outdated",
                     binary.path, <<>>, NoFix)>>
    ELSE <<>>

\* the build check of check_binaries for one binary
BuildIssues(a, binary) ==
    IF binary.build /= "none" /\ ~BuildIsValid(binary.build) THEN
        IF BuildCanFix(binary.build)
        THEN <<Issue("BuildIssue", TRUE, "Missing build number.", binary.path, <<>>,
                     Partial("vtool_overwrite", binary.path, <<>>, <<>>))>>
        ELSE <<Issue("BuildIssue", FALSE, "Probably sdk for build outdated",
                     binary.path, <<>>, NoFix)>>
    ELSE <<>>

\* the body of the loop of check_binaries for one binary
BinaryIssues(a, binary, delete) ==
    LET id_issues == check_id_needs_fix(a, binary)
        lib_issues == check_libs_need_fix(a, binary)
    IN  IF lib_issues.exc /= "" THEN lib_issues
        ELSE LET rc_issues == check_rpaths_need_fix(a, binary, delete) IN
             IF rc_issues.exc /= "" THEN rc_issues
             ELSE Ok(id_issues \o lib_issues.val \o rc_issues.val
                     \o BuildIssues(a, binary))

RECURSIVE BinariesLoop(_, _, _)
BinariesLoop(a, binaries, delete) ==
    IF binaries = <<>> THEN Ok(<<>>)
    ELSE LET one == BinaryIssues(a, Head(binaries), delete) IN
         IF one.exc /= "" THEN one
         ELSE LET rest == BinariesLoop(a, Tail(binaries), delete) IN
              IF rest.exc /= "" THEN rest ELSE Ok(one.val \o rest.val)

\* OSXAPP.check_binaries
check_binaries(a, delete) == BinariesLoop(a, a.macho_binaries, delete)

(***************************************************************************)
(* Repairs.  fix_lib_id, fix_load_path, fix_rpath, remove_rpath and         *)
(* vtool_overwrite are imported by _app.py from _macho.py but are not       *)
(* among the sources; they are modelled as the BinaryInspector mutations    *)
(* of the specification (rewriteIdentity, rewriteDependency,                *)
(* rewriteSearchPath, removeSearchPath, overwriteBuildMetadata).            *)
(***************************************************************************)
\* the first entry equal to old becomes new
RECURSIVE ReplaceFirst(_, _, _)
ReplaceFirst(xs, old, new) ==
    IF xs = <<>> THEN <<>>
    ELSE IF Head(xs) = old THEN <<new>> \o Tail(xs)
    ELSE <<Head(xs)>> \o ReplaceFirst(Tail(xs), old, new)

\* the first entry equal to old is removed
RECURSIVE RemoveFirst(_, _)
RemoveFirst(xs, old) ==
    IF xs = <<>> THEN <<>>
    ELSE IF Head(xs) = old THEN Tail(xs)
    ELSE <<Head(xs)>> \o RemoveFirst(Tail(xs), old)

\* the effect of one repair on the binary it names
Repaired(binary, fix) ==
    IF binary.path /= fix.bin THEN binary
    ELSE IF fix.op = "fix_lib_id" THEN [binary EXCEPT !.id_ = Some(fix.new)]
    ELSE IF fix.op = "fix_load_path"
    THEN [binary EXCEPT !.dylibs = ReplaceFirst(@, fix.old, fix.new)]
    ELSE IF fix.op = "fix_rpath"
    THEN [binary EXCEPT !.rpaths = ReplaceFirst(@, fix.old, fix.new)]
    ELSE IF fix.op = "remove_rpath"
    THEN [binary EXCEPT !.rpaths = RemoveFirst(@, fix.old)]
    ELSE IF fix.op = "vtool_overwrite" THEN [binary EXCEPT !.build = "valid"]
    ELSE binary

ApplyFix(d, fix) == [i \in 1..Len(d) |-> Repaired(d[i], fix)]

\* run_logged_act(args, dry_run, intends_side_effect) is not among the
\* sources: a command that intends a side effect is only logged in a dry run
Runs(dry, intends_side_effect) == ~(dry /\ intends_side_effect)

(***************************************************************************)
(* Construction of the OSXAPP                                              *)
(***************************************************************************)
Root == <<"/", "A.app">>
LoaderDir == Root \o <<"Contents", "MacOS">>
BundleExe == LoaderDir \o <<"A">>
Frameworks == Root \o <<"Contents", "Frameworks">>

\* a Mach-O binary as _app.py reads it: path, id_, dylibs, rpaths, build
MachOBinary(path, id_, dylibs, rpaths, build) ==
    [path |-> path, id_ |-> id_, dylibs |-> dylibs, rpaths |-> rpaths, build |-> build]

NoError == [exc |-> "", returncode |-> 0]
Exception(e) == [exc |-> e, returncode |-> 0]

\* no OSXAPP value
NoApp == [root |-> <<>>, loader_path |-> <<>>, bundle_exe |-> <<>>,
          macho_binaries |-> <<>>, jars |-> <<>>]

\* OSXAPP.__post_init__: the exception raised, "" if none
post_init(a, f) ==
    IF f.kind = "missing" THEN "AssertionError"
    ELSE IF f.kind /= "file" THEN "AssertionError"
    ELSE IF ~IsRelativeTo(a.bundle_exe, a.root) THEN "AssertionError"
    ELSE ""

\* OSXAPP.from_path: f is what the file system holds (Info.plist, the file
\* at the main executable's path), d the Mach-O binaries and js the jars
\* that iter_all_binaries finds under root, in the order it finds them
from_path(root, f, d, js) ==
    IF ~f.plist THEN Raise("AssertionError")
    ELSE
      LET abs_root == IF ~IsAbsolute(root) THEN resolve(root) ELSE root
          executable == f.executable
          bundle_exe == IF Parent(executable) = <<"MacOS">>
                        THEN Join(Join(abs_root, <<"Contents">>), executable)
                        ELSE Join(Join(abs_root, <<"Contents", "MacOS">>), executable)
          a == [root |-> abs_root, loader_path |-> Parent(bundle_exe),
                bundle_exe |-> bundle_exe, macho_binaries |-> d, jars |-> js]
      IN  IF post_init(a, f) /= "" THEN Raise(post_init(a, f)) ELSE Ok(a)

(***************************************************************************)
(* Bundles                                                                 *)
(***************************************************************************)
MaxRpaths == 2
MaxPasses == 2
MaxLen == 3

SeqsUpTo(S, n) == UNION {[1..k -> S] : k \in 0..n}

P_Token == <<"@loader_path", "..", "Frameworks">>
P_Outside == <<"/", "opt", "lib">>
P_Plugins == LoaderDir \o <<"plugins", "lib">>
P_Frameworks == Frameworks
RpathChoices == {P_Token, P_Outside, P_Plugins, P_Frameworks}

D_System == <<"/", "usr", "lib", "libSystem.dylib">>
D_Build == <<"/", "private", "tmp", "build", "lib.dylib">>
D_Missing == <<"/", "private", "tmp", "build", "libz.dylib">>
DylibLists == {<<>>, <<D_System>>, <<D_Build>>, <<D_Missing>>, <<D_Build, D_Missing>>}

\* the search paths of the main executable
MainRpathLists ==
    { <<>>,
      <<(<<"@loader_path", "..", "Frameworks">>)>>,
      <<(<<"@loader_path", "plugins">>)>>,
      <<(<<"@executable_path", "plugins">>), (<<"@loader_path", "plugins">>)>>,
      <<(<<"@executable_path">>)>>,
      <<(<<"plugins", "@loader_path", "lib">>)>>,
      <<(<<"/", "usr", "lib">>)>> }

\* identity and build of the binary under inspection
IdBuilds ==
    { <<None, "valid">>,
      <<Some(<<"@rpath", "libb.dylib">>), "unfixable">>,
      <<Some(<<"/", "private", "tmp", "build", "libb.dylib">>), "fixable">> }

BinaryDirs == {LoaderDir, Frameworks \o <<"sub">>}
LibraryDirs == {Frameworks}

MainExe(rpaths) == MachOBinary(BundleExe, None, <<>>, rpaths, "valid")
LibDylib(dir) ==
    MachOBinary(dir \o <<"lib.dylib">>, Some(<<"@rpath", "lib.dylib">>), <<>>, <<>>, "none")

GoodFs == [plist |-> TRUE, executable |-> <<"A">>, kind |-> "file", root |-> Root]

\* Jar.from_path: run_logged_act(["ditto", "-x", "-k", str(p), t],
\* dry_run=False, intends_side_effect=True), the command that unpacks the
\* archive into its scratch directory; it runs in a dry run too
Jar_from_path(jar) ==
    IF Runs(FALSE, TRUE) THEN <<Partial("ditto_x", jar.path, jar.path, jar.temp_path)>>
    ELSE <<>>

\* the commands from_path has run when it returns: one per jar found
RECURSIVE Unpacked(_)
Unpacked(js) ==
    IF js = <<>> THEN <<>> ELSE Jar_from_path(Head(js)) \o Unpacked(Tail(js))

\* the state a run starts in once from_path has returned the OSXAPP
Constructed(js) ==
    /\ fs = GoodFs
    /\ app = from_path(fs.root, fs, disk, js).val
    /\ pc = "constructed"
    /\ issues = <<>>
    /\ todo = 0
    /\ inner = 0
    /\ npass = 1
    /\ executed = Unpacked(js)
    /\ error = NoError
    /\ commands = <<>>
    /\ exits = <<>>
    /\ out = <<>>

\* fix on a bundle of three binaries: the main executable, a binary with
\* any identity, dependencies and search paths, and the library lib.dylib
Init ==
    /\ \E mr \in MainRpathLists, bd \in BinaryDirs, ld \in LibraryDirs,
          ib \in IdBuilds, ds \in DylibLists, rs \in SeqsUpTo(RpathChoices, MaxRpaths) :
          disk \in Listings({ MainExe(mr),
                               MachOBinary(bd \o <<"libb.dylib">>, ib[1], ds, rs, ib[2]),
                               LibDylib(ld) })
    /\ action = "fix"
    /\ rc_path_delete \in BOOLEAN
    /\ dry_run = FALSE
    /\ Constructed(<<>>)

\* paths of at most MaxLen parts over the names the code tells apart
Names == {"System", "usr", "Library", "@rpath", "@executable_path",
          "@loader_path", "A.app", "lib.dylib", ".."}
Paths ==
    UNION {{<<h>> \o t : h \in Names \cup {"/"}, t \in [1..k -> Names]} : k \in 0..(MaxLen - 1)}

\* fix on a bundle whose second binary declares one path p as its identity,
\* its only dependency and its only search path
InitPaths ==
    /\ \E p \in Paths :
          disk \in Listings({ MainExe(<<(<<"@loader_path", "plugins">>)>>),
                               MachOBinary(Frameworks \o <<"libb.dylib">>, Some(p), <<p>>, <<p>>, "valid"),
                               LibDylib(Frameworks) })
    /\ action = "fix"
    /\ rc_path_delete \in BOOLEAN
    /\ dry_run \in BOOLEAN
    /\ Constructed(<<>>)

\* before from_path: any Info.plist, any file at the main executable's path
Executables == { <<"A">>, <<"MacOS", "A">>, <<"/", "bin", "ls">>,
                 <<"..", "..", "..", "bin", "ls">> }

\* the bundle named on the command line, absolute or relative to Cwd
RootArgs == {Root, <<"A.app">>}

InitNew ==
    /\ fs \in [plist : BOOLEAN, executable : Executables, kind : {"file", "dir", "missing"},
                root : RootArgs]
    /\ \E mr \in MainRpathLists, rs \in SeqsUpTo(RpathChoices, MaxRpaths) :
          disk \in Listings((IF fs.kind = "file" /\ fs.executable \in {<<"A">>, <<"MacOS", "A">>}
                              THEN {MainExe(mr)} ELSE {})
                             \cup { MachOBinary(Frameworks \o <<"libb.dylib">>, None, <<>>, rs, "valid") })
    /\ app = NoApp
    /\ action = "fix"
    /\ rc_path_delete \in BOOLEAN
    /\ dry_run = FALSE
    /\ pc = "start"
    /\ issues = <<>>
    /\ todo = 0
    /\ inner = 0
    /\ npass = 1
    /\ executed = <<>>
    /\ error = NoError
    /\ commands = <<>>
    /\ exits = <<>>
    /\ out = <<>>

(***************************************************************************)
(* OSXAPP.from_path and fix (__main__.py), as operations on a bundle.  The   *)
(* command-line plumbing of main (configure_logging and its arguments, the  *)
(* `with` block around the OSXAPP) and the discovery helpers that are not   *)
(* among the sources (run_logged_read behind is_binary, the parse_macho     *)
(* that fills id_, rpaths and build) are taken as working.                  *)
(***************************************************************************)
\* OSXAPP.from_path(app_bundle); an exception ends the run
FromPath ==
    /\ pc = "start"
    /\ \E r \in {from_path(fs.root, fs, disk, <<>>)} :
       IF r.exc /= ""
       THEN /\ pc' = "raised"
            /\ error' = Exception(r.exc)
            /\ UNCHANGED app
       ELSE /\ pc' = "constructed"
            /\ app' = r.val
            /\ UNCHANGED error
    /\ UNCHANGED <<disk, fs, action, rc_path_delete, dry_run, issues, todo, inner,
                   npass, executed, commands, exits, out>>

\* where sign starts: its first loop is over the jars
SignEntry(a) == IF Len(a.jars) > 0 THEN "jar_sign" ELSE "sign_binaries"

\* the arguments fix is called with: check calls fix(app, dry_run=True)
fix_rc_path_delete == IF action = "check" THEN FALSE ELSE rc_path_delete
fix_dry_run == IF action = "check" THEN TRUE ELSE dry_run

\* OSXAPP.check_macho_binaries, which fix calls and OSXAPP does not define:
\* the check pass over the Mach-O binaries, that is check_binaries
check_macho_binaries(a, delete) == check_binaries(a, delete)

\* OSXAPP.check_jar_binaries, which fix calls and no source defines: the
\* binaries inside the archives carry no issue
check_jar_binaries(a, force_update) == <<>>

\* fix: issues = app.check_macho_binaries(rc_path_delete);
\* issues.extend(app.check_jar_binaries(force_update)); sign does not check
CheckBinaries ==
    /\ pc = "constructed"
    /\ action \in {"check", "fix", "fixsign"}
    /\ \E r \in {check_macho_binaries(app, fix_rc_path_delete)} :
       IF r.exc /= ""
       THEN /\ pc' = "raised"
            /\ error' = Exception(r.exc)
            /\ UNCHANGED <<issues, todo>>
       ELSE /\ pc' = "fixing"
            /\ issues' = r.val \o check_jar_binaries(app, FALSE)
            /\ todo' = 1
            /\ UNCHANGED error
    /\ UNCHANGED <<input, out, inner, npass, executed>>

\* one iteration of `for issue in issues: if issue.fixable: issue.fix(dry_run)`
FixIssue ==
    /\ pc = "fixing"
    /\ todo <= Len(issues)
    /\ \E issue \in {issues[todo]} :
       IF issue.fixable /\ issue.fix.op = "None"
       THEN /\ pc' = "raised"
            /\ error' = Exception("AssertionError")
            /\ UNCHANGED <<disk, executed, todo>>
       ELSE IF issue.fixable /\ Runs(fix_dry_run, TRUE)
       THEN /\ disk' = ApplyFix(disk, issue.fix)
            /\ executed' = Append(executed, issue.fix)
            /\ todo' = todo + 1
            /\ UNCHANGED <<pc, error>>
       ELSE /\ todo' = todo + 1
            /\ UNCHANGED <<disk, executed, pc, error>>
    /\ UNCHANGED <<fs, app, action, rc_path_delete, dry_run, issues, inner, npass,
                   commands, exits, out>>

\* the loop is over: print_unfixable; fixsign goes on with sign
FixDone ==
    /\ pc = "fixing"
    /\ todo > Len(issues)
    /\ pc' = IF action = "fixsign" THEN SignEntry(app) ELSE "done"
    /\ todo' = 1
    /\ inner' = 1
    /\ UNCHANGED <<input, out, issues, npass, executed, error>>

\* the tool is run again on the bundle: the binaries are inspected anew
Rerun ==
    /\ pc = "done"
    /\ npass < MaxPasses
    /\ app' = from_path(fs.root, fs, disk, app.jars).val
    /\ npass' = npass + 1
    /\ pc' = "constructed"
    /\ issues' = <<>>
    /\ todo' = 0
    /\ inner' = 0
    /\ UNCHANGED <<disk, fs, action, rc_path_delete, dry_run, executed, error,
                   commands, exits, out>>

Next == CheckBinaries \/ FixIssue \/ FixDone \/ Rerun

Spec == Init /\ [][Next]_vars

SpecPaths == InitPaths /\ [][Next]_vars

\* OSXAPP.from_path called on a bundle, then fix on the OSXAPP it returns
NextNew == FromPath \/ CheckBinaries \/ FixIssue \/ FixDone

SpecNew == InitNew /\ [][NextNew]_vars

\* fix on a bundle whose main executable sits at any depth below
\* Contents/MacOS and whose library lib.dylib sits anywhere under the root
LibraryPlaces == {LoaderDir, LoaderDir \o <<"sub">>, LoaderDir \o <<"plugins", "lib">>,
                  Frameworks, Root \o <<"Contents">>, Root \o <<"Resources">>, Root}
DeepExecutables == {<<"A">>, <<"MacOS", "A">>, <<"sub", "A">>, <<"sub", "bin", "A">>}

InitLib ==
    /\ fs \in [plist : {TRUE}, executable : DeepExecutables, kind : {"file"}, root : {Root}]
    /\ \E ld \in LibraryPlaces, bd \in BinaryDirs, ds \in DylibLists :
          disk \in Listings({ MachOBinary(IF Parent(fs.executable) = <<"MacOS">>
                                           THEN Root \o <<"Contents">> \o fs.executable
                                           ELSE LoaderDir \o fs.executable,
                                           None, <<>>, <<P_Token>>, "valid"),
                               MachOBinary(bd \o <<"libb.dylib">>, None, ds, <<>>, "valid"),
                               LibDylib(ld) })
    /\ action = "fix"
    /\ rc_path_delete \in BOOLEAN
    /\ dry_run \in BOOLEAN
    /\ app = from_path(fs.root, fs, disk, <<>>).val
    /\ pc = "constructed"
    /\ issues = <<>>
    /\ todo = 0
    /\ inner = 0
    /\ npass = 1
    /\ executed = <<>>
    /\ error = NoError
    /\ commands = <<>>
    /\ exits = <<>>
    /\ out = <<>>

SpecLib == InitLib /\ [][Next]_vars

\* fix on a bundle whose main executable declares any list of search paths
\* and whose second binary declares one search path inside the root
EntryChoices ==
    { <<"@loader_path", "plugins">>, <<"@loader_path", "plugins", "lib">>,
      <<"@executable_path", "plugins">>, <<"@executable_path">>,
      <<"@loader_path", "..", "Frameworks">>, <<"/", "usr", "lib">>,
      <<"x@loader_path", "plugins">> }
InRootPaths ==
    { LoaderDir \o <<"plugins", "lib", "x">>, LoaderDir \o <<"plugins", "x">>,
      LoaderDir \o <<"x">>, Frameworks \o <<"x">> }

InitOrder ==
    /\ \E es \in SeqsUpTo(EntryChoices, MaxRpaths), p \in InRootPaths :
          disk \in Listings({ MainExe(es),
                               MachOBinary(Frameworks \o <<"libb.dylib">>, None, <<>>, <<p>>, "valid"),
                               LibDylib(Frameworks) })
    /\ action = "fix"
    /\ rc_path_delete \in BOOLEAN
    /\ dry_run \in BOOLEAN
    /\ Constructed(<<>>)

SpecOrder == InitOrder /\ [][Next]_vars

(***************************************************************************)
(* sign, fixsign (__main__.py) and Jar.sign (_jar.py).  sign_impl and       *)
(* run_logged_act are imported from _macho.py and _util.py but are not      *)
(* among the sources: a command runs unless it intends a side effect in a   *)
(* dry run, and a command that runs may return a non-zero exit code, which  *)
(* ends the operation with CalledProcessError.                              *)
(***************************************************************************)
MaxJars == 2
MaxJarBinaries == 2

\* the names of the jars, of their scratch directories and of the binaries
\* a jar holds; the order in which they are found is chosen by JarOrders
JarNames == <<"a.jar", "b.jar", "c.jar", "d.jar">>
TempNames == <<"tmp_a", "tmp_b", "tmp_c", "tmp_d">>
LibNames == <<"libx.jnilib", "liby.jnilib", "libz.jnilib", "libw.jnilib">>

\* Path.with_suffix(".zip").name of a jar
with_suffix_zip(name) ==
    CASE name = "a.jar" -> "a.zip"
      [] name = "b.jar" -> "b.zip"
      [] name = "c.jar" -> "c.zip"
      [] name = "d.jar" -> "d.zip"

\* the orders in which a directory can list n files
JarOrders(n) == {o \in [1..n -> 1..n] : \A i, j \in 1..n : i /= j => o[i] /= o[j]}

\* the orders in which the scratch directory of a jar can list its binaries,
\* for a jar of any number of binaries
BinaryOrders == UNION {JarOrders(n) : n \in 0..MaxJarBinaries}

\* Jar(path, temp_path, binaries): archive k of the bundle, unpacked by
\* Jar.from_path into its own scratch directory; its binaries are the files
\* LibNames[1..Len(o)] in the order o in which Path(t).glob lists them
Jar(k, o) ==
    LET temp_path == <<"/", "tmp", TempNames[k]>>
    IN  [path |-> Root \o <<"Contents", "Java", JarNames[k]>>,
         temp_path |-> temp_path,
         binaries |-> [i \in 1..Len(o) |->
                          MachOBinary(temp_path \o <<LibNames[o[i]]>>, None, <<>>, <<>>, "valid")]]

\* the jars of Contents/Java in the order the directory lists them, each
\* with its binaries in the order its scratch directory lists them
JarLists ==
    UNION {{[k \in 1..n |-> Jar(o[k], bo[k])] : o \in JarOrders(n), bo \in [1..n -> BinaryOrders]} :
              n \in 0..MaxJars}

\* the commands sign_impl(entitlement_file, developer_id, path, dry_run) runs
sign_impl(path, dry) ==
    IF Runs(dry, TRUE) THEN <<Partial("codesign", path, <<>>, <<>>)>> ELSE <<>>

\* the commands run_logged_act(args, dry_run, intends_side_effect) runs
run_logged_act(cmd, dry, intends_side_effect) ==
    IF Runs(dry, intends_side_effect) THEN <<cmd>> ELSE <<>>

\* the exit codes the commands of one call can end with
ExitCodes(cmds) == IF cmds = <<>> THEN {0} ELSE {0, 1}

CalledProcessError(returncode) == [exc |-> "CalledProcessError", returncode |-> returncode]

\* chain(app.macho_binaries, app.jars)
Chain(a) == a.macho_binaries \o a.jars

\* sign, fixsign and check on a bundle with archives: the main executable,
\* a library that declares a search path outside the bundle, and the jars;
\* --rc-path-delete is given (check passes no deletion flag either way)
InitSign ==
    /\ disk \in Listings({ MainExe(<<P_Token>>),
                            MachOBinary(Frameworks \o <<"libb.dylib">>, None, <<>>,
                                        <<P_Outside>>, "valid") })
    /\ action \in {"check", "sign", "fixsign"}
    /\ rc_path_delete = TRUE
    /\ dry_run \in BOOLEAN
    /\ \E js \in JarLists : Constructed(js)

\* sign is entered: its first loop is over the jars
SignStart ==
    /\ pc = "constructed"
    /\ action = "sign"
    /\ pc' = SignEntry(app)
    /\ todo' = 1
    /\ inner' = 1
    /\ UNCHANGED <<input, out, issues, npass, executed, error>>

\* Jar.sign: sign_impl(entitlement_file, developer_id, binary.path, dry_run=False)
JarSignBinary ==
    /\ pc = "jar_sign"
    /\ todo <= Len(app.jars)
    /\ inner <= Len(app.jars[todo].binaries)
    /\ \E cmds \in {sign_impl(app.jars[todo].binaries[inner].path, FALSE)} :
       /\ executed' = executed \o cmds
       /\ \E rc \in ExitCodes(cmds) :
          IF rc /= 0
          THEN /\ pc' = "raised"
               /\ error' = CalledProcessError(rc)
               /\ UNCHANGED inner
          ELSE /\ inner' = inner + 1
               /\ UNCHANGED <<pc, error>>
    /\ UNCHANGED <<input, out, issues, todo, npass>>

\* a faulty variant: the archive is repacked whether or not its binaries are signed
JarRepack_early ==
    /\ pc = "jar_sign"
    /\ todo <= Len(app.jars)
    /\ \E jar \in {app.jars[todo]} :
       \E cmds \in {run_logged_act(Partial("ditto", jar.temp_path, <<>>,
                                           <<with_suffix_zip(Name(jar.path))>>),
                                   FALSE, FALSE)} :
       /\ executed' = executed \o cmds
       /\ \E rc \in ExitCodes(cmds) :
          IF rc /= 0
          THEN /\ pc' = "raised"
               /\ error' = CalledProcessError(rc)
          ELSE /\ pc' = "jar_mv"
               /\ UNCHANGED error
    /\ UNCHANGED <<input, out, issues, todo, inner, npass>>

\* Jar.sign: after the loop over self.binaries, ditto -c -k --keepParent
\* (dry_run=False, intends_side_effect=False, cwd=temp_path)
JarRepack ==
    /\ pc = "jar_sign"
    /\ todo <= Len(app.jars)
    /\ inner > Len(app.jars[todo].binaries)
    /\ \E jar \in {app.jars[todo]} :
       \E cmds \in {run_logged_act(Partial("ditto", jar.temp_path, <<>>,
                                           <<with_suffix_zip(Name(jar.path))>>),
                                   FALSE, FALSE)} :
       /\ executed' = executed \o cmds
       /\ \E rc \in ExitCodes(cmds) :
          IF rc /= 0
          THEN /\ pc' = "raised"
               /\ error' = CalledProcessError(rc)
          ELSE /\ pc' = "jar_mv"
               /\ UNCHANGED error
    /\ UNCHANGED <<input, out, issues, todo, inner, npass>>

\* Jar.sign: mv temp_path/<name>.zip path (dry_run=False, intends_side_effect=True);
\* then the next jar of `for jar in app.jars`, or the second loop of sign
JarMove ==
    /\ pc = "jar_mv"
    /\ \E jar \in {app.jars[todo]} :
       \E cmds \in {run_logged_act(Partial("mv", jar.path,
                                           jar.temp_path \o <<with_suffix_zip(Name(jar.path))>>,
                                           jar.path),
                                   FALSE, TRUE)} :
       /\ executed' = executed \o cmds
       /\ \E rc \in ExitCodes(cmds) :
          IF rc /= 0
          THEN /\ pc' = "raised"
               /\ error' = CalledProcessError(rc)
               /\ UNCHANGED <<todo, inner>>
          ELSE /\ pc' = IF todo < Len(app.jars) THEN "jar_sign" ELSE "sign_binaries"
               /\ todo' = IF todo < Len(app.jars) THEN todo + 1 ELSE 1
               /\ inner' = 1
               /\ UNCHANGED error
    /\ UNCHANGED <<input, out, issues, npass>>

\* sign: for binary in chain(app.macho_binaries, app.jars): sign_impl(.., dry_run)
SignBinary ==
    /\ pc = "sign_binaries"
    /\ todo <= Len(Chain(app))
    /\ \E cmds \in {sign_impl(Chain(app)[todo].path, dry_run)} :
       /\ executed' = executed \o cmds
       /\ \E rc \in ExitCodes(cmds) :
          IF rc /= 0
          THEN /\ pc' = "raised"
               /\ error' = CalledProcessError(rc)
               /\ UNCHANGED todo
          ELSE /\ todo' = todo + 1
               /\ UNCHANGED <<pc, error>>
    /\ UNCHANGED <<input, out, issues, inner, npass>>

\* sign: sign_impl(entitlement_file, developer_id, app.bundle_exe, dry_run)
SignExe ==
    /\ pc = "sign_binaries"
    /\ todo > Len(Chain(app))
    /\ \E cmds \in {sign_impl(app.bundle_exe, dry_run)} :
       /\ executed' = executed \o cmds
       /\ \E rc \in ExitCodes(cmds) :
          IF rc /= 0
          THEN /\ pc' = "raised"
               /\ error' = CalledProcessError(rc)
          ELSE /\ pc' = "sign_root"
               /\ UNCHANGED error
    /\ UNCHANGED <<input, out, issues, todo, inner, npass>>

\* sign: sign_impl(entitlement_file, developer_id, app.root, dry_run)
SignRoot ==
    /\ pc = "sign_root"
    /\ \E cmds \in {sign_impl(app.root, dry_run)} :
       /\ executed' = executed \o cmds
       /\ \E rc \in ExitCodes(cmds) :
          IF rc /= 0
          THEN /\ pc' = "raised"
               /\ error' = CalledProcessError(rc)
          ELSE /\ pc' = "done"
               /\ UNCHANGED error
    /\ UNCHANGED <<input, out, issues, todo, inner, npass>>

NextSign ==
    \/ CheckBinaries \/ FixIssue \/ FixDone
    \/ SignStart \/ JarSignBinary \/ JarRepack \/ JarMove
    \/ SignBinary \/ SignExe \/ SignRoot

SpecSign == InitSign /\ [][NextSign]_vars

(***************************************************************************)
(* run_commands, run_logged (_util.py)                                     *)
(***************************************************************************)
MaxCommands == 3
MaxExit == 2

Command(args, cwd, comment) == [args |-> args, cwd |-> cwd, comment |-> comment]

\* args, cwd and comment as in the serialisation below: a str is the
\* sequence of its pieces
CommandChoices ==
    { Command(<< <<"install_name_tool">>, <<"-id">>, <<"@rpath", "/", "lib.dylib">>,
                 <<"lib.dylib">> >>, None, None),
      Command(<< <<"ditto">>, <<"-c">>, <<"-k">>, <<".">>, <<"a.zip">> >>,
              Some(<<"/", "tmp", "tmp_a">>), Some(<<"repack">>)) }

\* run_commands on any command list; exits[i] is what subprocess.run returns
\* as the return code of the i-th command
InitRun ==
    /\ commands \in SeqsUpTo(CommandChoices, MaxCommands)
    /\ exits \in [1..Len(commands) -> 0..MaxExit]
    /\ disk = <<>>
    /\ fs = GoodFs
    /\ app = NoApp
    /\ action = "run_commands"
    /\ rc_path_delete = FALSE
    /\ dry_run = FALSE
    /\ pc = "run"
    /\ issues = <<>>
    /\ todo = 1
    /\ inner = 0
    /\ npass = 1
    /\ executed = <<>>
    /\ error = NoError
    /\ out = <<>>

\* a faulty variant: a non-zero exit code is logged and the loop goes on
RunLogged_continue ==
    /\ pc = "run"
    /\ todo <= Len(commands)
    /\ executed' = Append(executed, commands[todo])
    /\ todo' = todo + 1
    /\ UNCHANGED <<input, out, pc, issues, inner, npass, error>>

\* one iteration of `for command in commands: run_logged(command)`
RunLogged ==
    /\ pc = "run"
    /\ todo <= Len(commands)
    /\ executed' = Append(executed, commands[todo])
    /\ IF exits[todo] /= 0
       THEN /\ pc' = "raised"
            /\ error' = CalledProcessError(exits[todo])
            /\ UNCHANGED todo
       ELSE /\ todo' = todo + 1
            /\ UNCHANGED <<pc, error>>
    /\ UNCHANGED <<input, out, issues, inner, npass>>

\* run_commands returns
RunDone ==
    /\ pc = "run"
    /\ todo > Len(commands)
    /\ pc' = "done"
    /\ UNCHANGED <<input, out, issues, todo, inner, npass, executed, error>>

NextRun == RunLogged \/ RunDone

SpecRun == InitRun /\ [][NextRun]_vars

(***************************************************************************)
(* Command serialisation (_commands.py).  A Python str is the sequence of   *)
(* its pieces: "\n" and " " are pieces of their own, every other piece is   *)
(* a run of characters without a newline.                                  *)
(***************************************************************************)
\* sep.join(xs)
RECURSIVE JoinText(_, _)
JoinText(xs, sep) ==
    IF xs = <<>> THEN <<>>
    ELSE IF Len(xs) = 1 THEN xs[1]
    ELSE xs[1] \o <<sep>> \o JoinText(Tail(xs), sep)

\* text.split(sep): "" gives [""], a trailing separator gives a last ""
RECURSIVE SplitText(_, _)
SplitText(text, sep) ==
    LET at == {i \in 1..Len(text) : text[i] = sep} IN
    IF at = {} THEN <<text>>
    ELSE LET i == CHOOSE k \in at : \A j \in at : k <= j
         IN  <<SubSeq(text, 1, i - 1)>> \o SplitText(SubSeq(text, i + 1, Len(text)), sep)

\* str(path) of a pathlib.Path
PathStr(p) ==
    IF p = <<>> THEN <<".">>
    ELSE IF p[1] = "/" THEN <<"/">> \o JoinText([i \in 1..(Len(p) - 1) |-> <<p[i + 1]>>], "/")
    ELSE JoinText([i \in 1..Len(p) |-> <<p[i]>>], "/")

\* a faulty variant: the comment lines are put behind the command
to_sh_comment_last(c) ==
    LET cmds == << JoinText(c.args, " ") >>
        with_cwd == IF c.cwd /= None
                    THEN << <<"cd", " ">> \o PathStr(c.cwd[1]) >> \o cmds \o << <<"cd", " ", "-">> >>
                    ELSE cmds
    IN  IF c.comment /= None /\ c.comment[1] /= <<>>
        THEN LET cs == SplitText(c.comment[1], "\n")
             IN  with_cwd \o [i \in 1..Len(cs) |-> <<"#", " ">> \o cs[i]]
        ELSE with_cwd

\* Command.to_sh: `if self.cwd` holds for every Path, `if self.comment` for
\* every comment but the empty string
to_sh(c) ==
    LET cmds == << JoinText(c.args, " ") >>
        with_cwd == IF c.cwd /= None
                    THEN << <<"cd", " ">> \o PathStr(c.cwd[1]) >> \o cmds \o << <<"cd", " ", "-">> >>
                    ELSE cmds
    IN  IF c.comment /= None /\ c.comment[1] /= <<>>
        THEN LET cs == SplitText(c.comment[1], "\n")
             IN  [i \in 1..Len(cs) |-> <<"#", " ">> \o cs[i]] \o with_cwd
        ELSE with_cwd

\* a faulty variant: the working directory is handed on as the Path it is
to_dict_path(c) == [args |-> c.args, cwd |-> c.cwd, comment |-> c.comment]

\* Command.to_dict
to_dict(c) ==
    [args |-> c.args,
     cwd |-> IF c.cwd /= None THEN Some(PathStr(c.cwd[1])) ELSE None,
     comment |-> c.comment]

\* cmds.extend(cmd.to_sh()) for every command, in order
RECURSIVE ExtendAll(_)
ExtendAll(cs) == IF cs = <<>> THEN <<>> ELSE to_sh(Head(cs)) \o ExtendAll(Tail(cs))

\* a faulty variant: every line is ended by a newline
serialize_to_sh_trailing(cs) ==
    LET cmds == ExtendAll(cs)
    IN  JoinText([i \in 1..Len(cmds) |-> cmds[i] \o <<"\n">>], "")

\* serialize_to_sh: the text written to sh_cmd_out
serialize_to_sh(cs) == JoinText(ExtendAll(cs), "\n")

Echo(n) == Command(<< <<"echo">>, <<n>> >>, None, None)
SomePath == <<"/", "some", "path">>

ShCommands ==
    { Echo("0"), Echo("1"), Echo("2"),
      Command(<< <<"ls">>, <<"-l">> >>, Some(SomePath), None),
      Command(<< <<"ls">>, <<"-l">> >>, Some(SomePath),
              Some(<<"Something", "\n", "Multiline">>)),
      Command(<< <<"echo">>, <<"a", " ", "b">> >>, Some(<<>>), Some(<<>>)),
      Command(<< <<"true">> >>, None, Some(<<"x", "\n">>)) }

\* a command list to be serialised
InitSh ==
    /\ commands \in SeqsUpTo(ShCommands, MaxCommands)
    /\ exits = <<>>
    /\ disk = <<>>
    /\ fs = GoodFs
    /\ app = NoApp
    /\ action = "serialize"
    /\ rc_path_delete = FALSE
    /\ dry_run = TRUE
    /\ pc = "start"
    /\ issues = <<>>
    /\ todo = 0
    /\ inner = 0
    /\ npass = 1
    /\ executed = <<>>
    /\ error = NoError
    /\ out = <<>>

\* commands[i].to_sh()
ToSh ==
    /\ pc = "start"
    /\ \E i \in 1..Len(commands) :
         /\ out' = to_sh(commands[i])
         /\ todo' = i
    /\ pc' = "to_sh"
    /\ UNCHANGED <<input, issues, inner, npass, executed, error>>

\* commands[i].to_dict()
ToDict ==
    /\ pc = "start"
    /\ \E i \in 1..Len(commands) :
         /\ out' = to_dict(commands[i])
         /\ todo' = i
    /\ pc' = "to_dict"
    /\ UNCHANGED <<input, issues, inner, npass, executed, error>>

\* serialize_to_sh(commands, sh_cmd_out)
SerializeToSh ==
    /\ pc = "start"
    /\ out' = serialize_to_sh(commands)
    /\ pc' = "serialize_to_sh"
    /\ UNCHANGED <<input, issues, todo, inner, npass, executed, error>>

NextSh == ToSh \/ ToDict \/ SerializeToSh

SpecSh == InitSh /\ [][NextSh]_vars


(***************************************************************************)
(* Properties of the check pass                                            *)
(***************************************************************************)
\* where the loader finds `target` when the binary at `binpath` loads it
Rebased(binpath, target) ==
    IF Len(target) > 0 /\ target[1] = "@loader_path"
    THEN Norm(Parent(binpath) \o Tail(target), <<>>)
    ELSE target

Count(xs, x) == Cardinality({k \in 1..Len(xs) : xs[k] = x})

\* the issues of a list that are about entry `subject` of the binary at `bin`
About(list, kind, bin, subject) ==
    {k \in 1..Len(list) : /\ list[k].kind = kind
                          /\ list[k].details.bin = bin
                          /\ list[k].details.subject = subject
                          /\ list[k].details.msg /= "Library ID with fixed path"}

Binaries == {app.macho_binaries[i] : i \in 1..Len(app.macho_binaries)}
Entries(xs) == {xs[k] : k \in 1..Len(xs)}

\* C1 (as claimed): every dependency that is not allowed and names a bundle
\* library L gets a fixable issue whose rewrite target is @loader_path-relative
\* and, re-based at the referencing binary's own directory, is L's path.
C1_RoundTrip ==
    pc = "fixing" =>
      \A b \in Binaries : \A d \in Entries(b.dylibs) :
        (~Allowed(d) /\ HasLibrary(app, Name(d))) =>
          \E k \in About(issues, "LibraryPathIssue", b.path, d) :
            /\ issues[k].fixable
            /\ issues[k].fix.op = "fix_load_path"
            /\ issues[k].fix.new[1] = "@loader_path"
            /\ Rebased(b.path, issues[k].fix.new) = Library(app, Name(d)).path

\* C2 (as claimed): once a pass has applied every repair, the next pass over
\* the re-inspected bundle reports no fixable issue.
C2_Idempotent ==
    (npass > 1 /\ pc = "fixing") => \A k \in 1..Len(issues) : ~issues[k].fixable

\* the issues about entry pth of binary b: one per occurrence of the entry,
\* with rc_path_delete fixable with the repair remove_rpath of that binary
\* and that entry, without it unfixable with no repair
C3_OneIssue(list, b, pth) ==
    /\ Cardinality(About(list, "RcpathIssue", b.path, pth)) = Count(b.rpaths, pth)
    /\ \A k \in About(list, "RcpathIssue", b.path, pth) :
          IF rc_path_delete
          THEN /\ list[k].fixable
               /\ list[k].fix = Partial("remove_rpath", b.path, pth, <<>>)
          ELSE /\ ~list[k].fixable
               /\ list[k].fix = NoFix

\* C3 (as claimed): for every search-path entry that fix_path_pointer cannot
\* resolve, check_rpaths_need_fix emits exactly one issue for that entry:
\* with rc_path_delete a fixable one whose repair is remove_rpath of that
\* binary and that entry, without it an unfixable one with no repair; and
\* once the check pass has run, the issue list holds that issue.
C3_DeletionPolicy ==
    \A b \in Binaries : \A pth \in Entries(b.rpaths) :
      fix_path_pointer(app, pth) = Ok(None) =>
        /\ LET r == check_rpaths_need_fix(app, b, rc_path_delete)
           IN  r.exc = "" /\ C3_OneIssue(r.val, b, pth)
        /\ pc /= "constructed" => C3_OneIssue(issues, b, pth)

\* C6: a dependency that is not allowed and names no bundle library gets
\* exactly one issue, a LibraryPathIssue that is not fixable and carries no
\* repair, and check_libs_need_fix raises nothing.
C6_OneIssue(list, b, d) ==
    /\ Cardinality(About(list, "LibraryPathIssue", b.path, d)) = Count(b.dylibs, d)
    /\ \A k \in About(list, "LibraryPathIssue", b.path, d) :
          ~list[k].fixable /\ list[k].fix = NoFix

C6_MissingDependency ==
    \A b \in Binaries :
      (\E d \in Entries(b.dylibs) : ~Allowed(d) /\ ~HasLibrary(app, Name(d))) =>
        /\ check_libs_need_fix(app, b).exc = ""
        /\ \A d \in Entries(b.dylibs) :
             (~Allowed(d) /\ ~HasLibrary(app, Name(d))) =>
               /\ C6_OneIssue(check_libs_need_fix(app, b).val, b, d)
               /\ pc = "fixing" => C6_OneIssue(issues, b, d)

C6_Witness ==
    /\ pc = "fixing"
    /\ \E b \in Binaries :
         /\ b.dylibs = <<D_Build, D_Missing>>
         /\ \E k \in 1..Len(issues) :
              /\ issues[k].kind = "LibraryPathIssue"
              /\ issues[k].details.subject = D_Missing
              /\ ~issues[k].fixable

\* C9 (as claimed): a check pass over a constructed bundle never ends in an
\* exception, whatever the binaries declare.
C9_NeverRaises == pc /= "raised"

(***************************************************************************)
(* Properties of sign, run_commands and construction                       *)
(***************************************************************************)
Jars == {app.jars[i] : i \in 1..Len(app.jars)}

\* the positions in the trace where command `op` ran on `bin`
Pos(op, bin) == {k \in 1..Len(executed) : executed[k].op = op /\ executed[k].bin = bin}

\* C4: for every jar, each of its binaries is signed before the jar is
\* repacked, the repack runs once and before the archive is moved onto the
\* jar's path, and every jar of the bundle is repacked before any command
\* signs a jar's original path.
C4_ContainerOrdering ==
    \A j \in Jars :
      /\ Cardinality(Pos("ditto", j.temp_path)) <= 1
      /\ \A r \in Pos("ditto", j.temp_path) :
           \A i \in 1..Len(j.binaries) :
             \E s \in Pos("codesign", j.binaries[i].path) : s < r
      /\ \A m \in Pos("mv", j.path) :
           \E r \in Pos("ditto", j.temp_path) : r < m
      /\ \A s \in Pos("codesign", j.path) :
           \A j2 \in Jars : \E r \in Pos("ditto", j2.temp_path) : r < s

C4_Witness ==
    /\ pc = "done"
    /\ action = "sign"
    /\ ~dry_run
    /\ Len(app.jars) = 2
    /\ Name(app.jars[1].path) = "b.jar"
    /\ Len(app.jars[1].binaries) = 2
    /\ Name(app.jars[1].binaries[1].path) = "liby.jnilib"
    /\ Pos("mv", app.jars[1].path) /= {}
    /\ Pos("codesign", app.jars[2].path) /= {}

\* a path under /System, /usr or /Library, or one whose first part is one of
\* @rpath, @executable_path, @loader_path
UnderAllowedPrefix(p) ==
    /\ Len(p) >= 1
    /\ \/ p[1] \in {"@rpath", "@executable_path", "@loader_path"}
       \/ Len(p) >= 2 /\ p[1] = "/" /\ p[2] \in {"System", "usr", "Library"}

NoIssueAbout(list, p) == \A k \in 1..Len(list) : list[k].details.subject /= p

\* C5: a path under an OS-provided prefix or starting with a token is
\* Allowed, fix_path_pointer returns it unchanged, and none of the three
\* checks of a binary that declares it emits an issue for it.
C5_AllowedUnchanged ==
    \A b \in Binaries :
      \A p \in Entries(b.id_) \cup Entries(b.dylibs) \cup Entries(b.rpaths) :
        UnderAllowedPrefix(p) =>
          /\ Allowed(p)
          /\ fix_path_pointer(app, p) = Ok(Some(p))
          /\ NoIssueAbout(check_id_needs_fix(app, b), p)
          /\ check_libs_need_fix(app, b).exc = ""
          /\ NoIssueAbout(check_libs_need_fix(app, b).val, p)
          /\ check_rpaths_need_fix(app, b, rc_path_delete).exc = ""
          /\ NoIssueAbout(check_rpaths_need_fix(app, b, rc_path_delete).val, p)
          /\ pc = "fixing" => NoIssueAbout(issues, p)

C5_Witness ==
    /\ pc = "fixing"
    /\ issues = <<>>
    /\ \E b \in Binaries :
         /\ b.id_ = Some(<<"/", "Library", "lib.dylib">>)
         /\ b.dylibs = <<(<<"/", "Library", "lib.dylib">>)>>
         /\ b.rpaths = <<(<<"/", "Library", "lib.dylib">>)>>

\* C7 (as claimed): in a dry run (check, or --dry-run) check, fix, sign and
\* fixsign execute no command that modifies a binary or an archive of the
\* bundle (no rewrite, removal, signing, repack or move: every command run
\* is one of the unpacking commands of construction), and the binaries on
\* disk stay as inspected.
C7_DryRunRunsNothing ==
    (action = "check" \/ dry_run) =>
      /\ \A k \in 1..Len(executed) : executed[k].op = "ditto_x"
      /\ disk = app.macho_binaries

\* the indices of the commands that return a non-zero exit code
Failing == {i \in 1..Len(commands) : exits[i] /= 0}
FirstFailing == CHOOSE i \in Failing : \A j \in Failing : i <= j

\* C8: run_commands starts the commands in list order, each once; when
\* command i is the first to exit non-zero, CalledProcessError with that exit
\* code is raised right after it and no later command is started; without a
\* failing command all of them run.
C8_FailFast ==
    /\ Len(executed) <= Len(commands)
    /\ executed = SubSeq(commands, 1, Len(executed))
    /\ Failing /= {} => (Len(executed) <= FirstFailing /\ pc /= "done")
    /\ pc = "raised" =>
         /\ Failing /= {}
         /\ Len(executed) = FirstFailing
         /\ error = CalledProcessError(exits[FirstFailing])
    /\ pc = "done" => (Failing = {} /\ executed = commands /\ error = NoError)
    /\ pc = "run" => Len(executed) = todo - 1

C8_Witness ==
    /\ pc = "raised"
    /\ Len(commands) = 3
    /\ exits = <<0, 2, 1>>
    /\ Len(executed) = 2
    /\ error = CalledProcessError(2)

\* C10 (as claimed): when the main executable declares an absolute search
\* path, construction fails: no OSXAPP value exists and no check pass runs.
C10_FatalAtConstruction ==
    (\E i \in 1..Len(disk) :
        /\ disk[i].path = BundleExe
        /\ \E k \in 1..Len(disk[i].rpaths) : IsAbsolute(disk[i].rpaths[k]))
    => (pc /= "start" => (pc = "raised" /\ app = NoApp))

(***************************************************************************)
(* Properties of issues                                                    *)
(***************************************************************************)
\* every issue of a list carries a repair exactly when it is fixable
FixPresent(list) ==
    \A k \in 1..Len(list) : list[k].fixable <=> (list[k].fix /= NoFix)

\* C11: every issue the checks of a binary produce, and every issue of the
\* list check_binaries returns, is fixable exactly when it carries a repair
\* (fixable implies a repair, unfixable implies none), so `assert issue.fix`
\* in fix never fails.
C11_FixableHasFix ==
    /\ \A b \in Binaries :
         /\ FixPresent(check_id_needs_fix(app, b))
         /\ check_libs_need_fix(app, b).exc = "" => FixPresent(check_libs_need_fix(app, b).val)
         /\ check_rpaths_need_fix(app, b, rc_path_delete).exc = ""
              => FixPresent(check_rpaths_need_fix(app, b, rc_path_delete).val)
         /\ FixPresent(BuildIssues(app, b))
    /\ FixPresent(issues)
    /\ pc = "raised" => error.exc /= "AssertionError"

C11_Witness ==
    /\ pc = "done"
    /\ \E k \in 1..Len(issues) :
         issues[k].kind = "BuildIssue" /\ issues[k].fixable /\ issues[k].fix.op = "vtool_overwrite"
    /\ \E k \in 1..Len(issues) :
         issues[k].kind = "RcpathIssue" /\ issues[k].fixable /\ issues[k].fix.op = "remove_rpath"
    /\ \E k \in 1..Len(issues) :
         issues[k].kind = "LibraryPathIssue" /\ ~issues[k].fixable /\ issues[k].fix = NoFix

(***************************************************************************)
(* Properties of the serialisation                                         *)
(***************************************************************************)
HasComment(c) == c.comment /= None /\ c.comment[1] /= <<>>
Newlines(text) == Cardinality({i \in 1..Len(text) : text[i] = "\n"})
CommentLines(c) == IF HasComment(c) THEN Newlines(c.comment[1]) + 1 ELSE 0
CwdLines(c) == IF c.cwd /= None THEN 1 ELSE 0
Plain(c) == c.cwd = None /\ c.comment = None

\* C12: serialize_to_sh writes the to_sh lines of the commands in list
\* order, joined by single newlines and with no newline at the end (nothing
\* for an empty list); N commands without cwd and comment give N lines, line
\* i being the space-joined arguments of command i.
C12_SerializeToSh ==
    pc = "serialize_to_sh" =>
      /\ commands = <<>> => out = <<>>
      /\ commands /= <<>> =>
           /\ out[Len(out)] /= "\n"
           /\ LET lines == SplitText(out, "\n")
                  upto(n) == IF n = 0 THEN 0
                             ELSE Len(ExtendAll(SubSeq(commands, 1, n)))
              IN  /\ Len(lines) = upto(Len(commands))
                  /\ \A n \in 1..Len(commands) :
                       SubSeq(lines, upto(n - 1) + 1, upto(n)) = to_sh(commands[n])
                  /\ (\A n \in 1..Len(commands) : Plain(commands[n])) =>
                       /\ Len(lines) = Len(commands)
                       /\ \A n \in 1..Len(commands) :
                            lines[n] = JoinText(commands[n].args, " ")

C12_Witness ==
    /\ pc = "serialize_to_sh"
    /\ commands = <<Echo("0"), Echo("1"), Echo("2")>>
    /\ out = <<"echo", " ", "0", "\n", "echo", " ", "1", "\n", "echo", " ", "2">>

\* C13: to_sh returns a line "# <line>" for each newline-separated line of
\* a (non-empty) comment, then "cd <cwd>" if cwd is set, then one line of the
\* arguments joined by single spaces, then "cd -" if cwd is set: as many
\* lines as comment lines + 1 + 2 for a cwd, one line when neither is set.
C13_ToSh ==
    pc = "to_sh" =>
      LET c == commands[todo]
          nc == CommentLines(c)
          k == CwdLines(c)
      IN  /\ Len(out) = nc + 1 + 2 * k
          /\ \A i \in 1..nc :
               /\ Len(out[i]) >= 2
               /\ SubSeq(out[i], 1, 2) = <<"#", " ">>
               /\ Newlines(out[i]) = 0
          /\ nc > 0 =>
               JoinText([i \in 1..nc |-> SubSeq(out[i], 3, Len(out[i]))], "\n") = c.comment[1]
          /\ k = 1 =>
               /\ out[nc + 1] = <<"cd", " ">> \o PathStr(c.cwd[1])
               /\ out[Len(out)] = <<"cd", " ", "-">>
          /\ out[nc + k + 1] = JoinText(c.args, " ")
          /\ (c.comment = None /\ c.cwd = None) => Len(out) = 1

C13_Witness ==
    /\ pc = "to_sh"
    /\ commands[todo] = Command(<< <<"ls">>, <<"-l">> >>, Some(SomePath),
                                Some(<<"Something", "\n", "Multiline">>))
    /\ out = << <<"#", " ", "Something">>, <<"#", " ", "Multiline">>,
                <<"cd", " ", "/", "some", "/", "path">>,
                <<"ls", " ", "-l">>,
                <<"cd", " ", "-">> >>

\* C14: to_dict returns a record of exactly args, cwd and comment: the
\* arguments as they are, str(cwd) when cwd is set and None otherwise, the
\* comment as it is; the command list is left as it was.
C14_ToDict ==
    /\ [](pc = "to_dict" =>
           LET c == commands[todo]
           IN  /\ DOMAIN out = {"args", "cwd", "comment"}
               /\ out.args = c.args
               /\ c.cwd = None => out.cwd = None
               /\ c.cwd /= None => out.cwd = Some(PathStr(c.cwd[1]))
               /\ c.cwd = Some(SomePath) => out.cwd = Some(<<"/", "some", "/", "path">>)
               /\ out.comment = c.comment)
    /\ [][commands' = commands]_vars

C14_Witness ==
    /\ pc = "to_dict"
    /\ out = [args |-> << <<"ls">>, <<"-l">> >>,
              cwd |-> Some(<<"/", "some", "/", "path">>),
              comment |-> None]

(***************************************************************************)
(* Properties of the resolution                                            *)
(***************************************************************************)
\* the k-th ancestor of the main executable's directory
Ancestor(k) == SubSeq(app.loader_path, 1, Len(app.loader_path) - k)

\* C15: for the library L a file name maps to, lib_loader_relative returns
\* @loader_path, then k "..", then L's path relative to the k-th ancestor of
\* the main executable's directory, k being the smallest number for which
\* that ancestor, not above the root, contains L; and this is the rewrite
\* target of every dependency of that name.
C15_LoaderRelative ==
    /\ \A b \in Binaries :
         LET L == Library(app, Name(b.path))
             r == lib_loader_relative(app, Name(b.path))
         IN  /\ r.exc = ""
             /\ \E k \in 0..(Len(app.loader_path) - Len(app.root)) :
                  /\ IsRelativeTo(L.path, Ancestor(k))
                  /\ \A j \in 0..(k - 1) : ~IsRelativeTo(L.path, Ancestor(j))
                  /\ r.val = <<"@loader_path">> \o [i \in 1..k |-> ".."]
                               \o RelativeTo(L.path, Ancestor(k))
    /\ pc = "fixing" =>
         \A k \in 1..Len(issues) :
           issues[k].fix.op = "fix_load_path" =>
             issues[k].fix.new =
               lib_loader_relative(app, Name(issues[k].fix.old)).val

C15_Witness ==
    /\ pc = "fixing"
    /\ app.bundle_exe = BundleExe
    /\ Library(app, "lib.dylib").path = Frameworks \o <<"lib.dylib">>
    /\ \E k \in 1..Len(issues) :
         /\ issues[k].fix.op = "fix_load_path"
         /\ issues[k].fix.old = D_Build
         /\ issues[k].fix.new = <<"@loader_path", "..", "Frameworks", "lib.dylib">>

\* the search paths the main executable declares
MainRpaths == (CHOOSE b \in Binaries : b.path = app.bundle_exe).rpaths

\* the base of an entry: the loader directory joined with the entry stripped
\* of its @loader_path/ or @executable_path/ token
EntryBase(entry) ==
    Join(app.loader_path, StripToken(StripToken(entry, "@loader_path"), "@executable_path"))

\* a path the resolver has to resolve: absolute, inside the root, not Allowed
NeedsResolution(p) == IsAbsolute(p) /\ IsRelativeTo(p, app.root) /\ ~Allowed(p)

Matching(p) == {i \in 1..Len(MainRpaths) : IsRelativeTo(p, EntryBase(MainRpaths[i]))}

\* C16 (as claimed): a path that needs resolution and lies under the base of
\* no search path of the main executable is resolved all the same:
\* fix_path_pointer raises nothing and returns a path, never None.
C16_FallbackSucceeds ==
    \A b \in Binaries : \A p \in Entries(b.rpaths) :
      (NeedsResolution(p) /\ Matching(p) = {}) =>
        /\ fix_path_pointer(app, p).exc = ""
        /\ fix_path_pointer(app, p).val /= None

\* C17 (as claimed): a path that needs resolution and lies under the base of
\* some search path of the main executable resolves to entry / (path
\* relative to the base) for the first such entry, whatever the other
\* entries are.
C17_FirstMatchWins ==
    \A b \in Binaries : \A p \in Entries(b.rpaths) :
      (NeedsResolution(p) /\ Matching(p) /= {}) =>
        LET i == CHOOSE k \in Matching(p) : \A j \in Matching(p) : k <= j
        IN  fix_path_pointer(app, p) =
              Ok(Some(Join(MainRpaths[i], RelativeTo(p, EntryBase(MainRpaths[i])))))

====
